---- MODULE Spec2Model ----
(***************************************************************************)
(* A model of bin/samples.py: the UnpairedTuple and PairedTuple records,   *)
(* their derivation from Alignment objects, and the Dataset that collects  *)
(* them and saves them to / loads them from CSV files.                     *)
(***************************************************************************)
EXTENDS Integers, Sequences, FiniteSets, TLC

\* ds     the Dataset a scan fills through add_* (data_* and lab_* by suffix)
\* fs     the files save writes, by suffix and extension ("" or ".gz")
\* saved  the Dataset as it was when save was last called
\* ld     the Dataset load was last called on, empty before the call
\* open   the file handles opened and not closed
\* calls  the number of add_*, save and load calls made
\* last   the latest call: its arguments, the exception it raised ("" for
\*        none) and, for a constructor called on its own, its record
VARIABLES ds, fs, saved, ld, open, calls, last

vars == <<ds, fs, saved, ld, open, calls, last>>

(***************************************************************************)
(* Python values.  Every value carries its type, so that a read name       *)
(* (a string), a score (an integer) and None can be told apart and         *)
(* compared.  NoAttr stands for an attribute the object does not have      *)
(* (hasattr is false).                                                     *)
(***************************************************************************)
None == [k |-> "none", n |-> 0, s |-> ""]

NoAttr == [k |-> "noattr", n |-> 0, s |-> ""]

PyInt(i) == [k |-> "int", n |-> i, s |-> ""]

PyStr(x) == [k |-> "str", n |-> 0, s |-> x]

PyTrue == [k |-> "bool", n |-> 1, s |-> ""]

PyFalse == [k |-> "bool", n |-> 0, s |-> ""]

PyBool(b) == IF b THEN PyTrue ELSE PyFalse

\* Python 2 ordering of None and integers: None sorts below every integer.
PyLe(a, b) ==
    IF a.k = "none" THEN TRUE
    ELSE IF b.k = "none" THEN FALSE
    ELSE a.n <= b.n

PyMax(a, b) == IF PyLe(b, a) THEN a ELSE b

hasattr(al, f) == al[f] # NoAttr

\* The outcome of a call that returns a record or raises.
NoRec == [none |-> TRUE]

Ok(r) == [err |-> "", rec |-> r]

Raise(e) == [err |-> e, rec |-> NoRec]

(***************************************************************************)
(* The bounds of the model.                                                *)
(***************************************************************************)
\* The number of add_* calls of one scan.
MaxAdds == 2

\* The number of save calls.
MaxSaves == 1

\* The number of load calls.
MaxLoads == 1

\* The integers int() is asked to parse lie in -MaxNum .. MaxNum.
MaxNum == 9

(***************************************************************************)
(* Alignment objects, as the aligner hands them over.                      *)
(***************************************************************************)
Names == {"r1", "7", "8"}

NameLen(nm) == IF nm = "r1" THEN 3 ELSE IF nm = "7" THEN 2 ELSE 4

NameMapq(nm) == IF nm = "r1" THEN 9 ELSE IF nm = "7" THEN 0 ELSE 5

Bests == {1, 3}

Thirds == {NoAttr, PyInt(-1), PyInt(2)}

BoundKinds == {"none", "both", "minonly"}

ConcKinds == {NoAttr, PyInt(4), PyInt(5)}

Kinds == {"unpaired", "badend", "concordant", "discordant"}

Al(nm, b, t, v, c, kd) ==
    [name |-> PyStr(nm),
     len |-> PyInt(NameLen(nm)),
     bestScore |-> PyInt(b),
     secondBestScore |-> PyInt(0),
     thirdBestScore |-> t,
     minValid |-> IF v = "none" THEN NoAttr ELSE PyInt(0),
     maxValid |-> IF v = "both" THEN PyInt(2) ELSE NoAttr,
     bestConcordantScore |-> c,
     secondBestConcordantScore |-> IF c = NoAttr THEN NoAttr ELSE PyInt(c.n - 1),
     mapq |-> PyInt(NameMapq(nm)),
     paired |-> kd # "unpaired",
     concordant |-> kd = "concordant",
     discordant |-> kd = "discordant"]

Alignments ==
    {Al(nm, b, t, v, c, kd) : nm \in Names, b \in Bests, t \in Thirds,
                              v \in BoundKinds, c \in ConcKinds, kd \in Kinds}

NoAl == [none |-> TRUE]

\* Alignment.fragment_length lives in read.py; its value is opaque here.
Alignment_fragment_length(al1, al2) == PyInt(al1.len.n + al2.len.n)

(***************************************************************************)
(* UnpairedTuple                                                           *)
(***************************************************************************)
UnpairedTuple(rdname, rdlen, minv, maxv, bestsc, best2sc, mapq, ordlen) ==
    IF minv = None \/ (PyLe(minv, bestsc) /\ PyLe(bestsc, maxv))
    THEN Ok([rdname |-> rdname, rdlen |-> rdlen, ordlen |-> ordlen,
             minv |-> minv, maxv |-> maxv, bestsc |-> bestsc,
             best2sc |-> best2sc, mapq |-> mapq])
    ELSE Raise("AssertionError")

UnpairedTuple_iter(t) ==
    <<t.rdname, t.bestsc, t.best2sc, t.minv, t.maxv, t.rdlen, t.mapq, t.ordlen>>

Widen(al) ==
    IF hasattr(al, "thirdBestScore")
    THEN PyMax(al.secondBestScore, al.thirdBestScore)
    ELSE al.secondBestScore

from_alignment(al, ordlen) ==
    LET secbest == Widen(al)
    IN  IF hasattr(al, "minValid") /\ ~hasattr(al, "maxValid")
        THEN Raise("AssertionError")
        ELSE LET min_valid == IF hasattr(al, "minValid") THEN al.minValid ELSE None
                 max_valid == IF hasattr(al, "minValid") THEN al.maxValid ELSE None
             IN  UnpairedTuple(al.name, al.len, min_valid, max_valid,
                               al.bestScore, secbest, al.mapq, ordlen)

(***************************************************************************)
(* PairedTuple                                                             *)
(***************************************************************************)
\* PairedTuple with the assertion on mate 2 left out.
PairedTuple_Mate1Only(rdname1, rdlen1, minv1, maxv1, bestsc1, best2sc1, mapq1, rdname2, rdlen2, minv2, maxv2, bestsc2, best2sc2, mapq2, bestconcsc, best2concsc, fraglen) ==
    IF minv1 = None \/ (PyLe(minv1, bestsc1) /\ PyLe(bestsc1, maxv1))
    THEN Ok([rdname1 |-> rdname1, rdname2 |-> rdname2,
             rdlen1 |-> rdlen1, rdlen2 |-> rdlen2,
             minv1 |-> minv1, minv2 |-> minv2,
             maxv1 |-> maxv1, maxv2 |-> maxv2,
             bestsc1 |-> bestsc1, bestsc2 |-> bestsc2,
             best2sc1 |-> best2sc1, best2sc2 |-> best2sc2,
             mapq1 |-> mapq1, mapq2 |-> mapq2,
             bestconcsc |-> bestconcsc, best2concsc |-> best2concsc,
             fraglen |-> fraglen])
    ELSE Raise("AssertionError")

PairedTuple(rdname1, rdlen1, minv1, maxv1, bestsc1, best2sc1, mapq1, rdname2, rdlen2, minv2, maxv2, bestsc2, best2sc2, mapq2, bestconcsc, best2concsc, fraglen) ==
    IF /\ minv1 = None \/ (PyLe(minv1, bestsc1) /\ PyLe(bestsc1, maxv1))
       /\ minv2 = None \/ (PyLe(minv2, bestsc2) /\ PyLe(bestsc2, maxv2))
    THEN Ok([rdname1 |-> rdname1, rdname2 |-> rdname2,
             rdlen1 |-> rdlen1, rdlen2 |-> rdlen2,
             minv1 |-> minv1, minv2 |-> minv2,
             maxv1 |-> maxv1, maxv2 |-> maxv2,
             bestsc1 |-> bestsc1, bestsc2 |-> bestsc2,
             best2sc1 |-> best2sc1, best2sc2 |-> best2sc2,
             mapq1 |-> mapq1, mapq2 |-> mapq2,
             bestconcsc |-> bestconcsc, best2concsc |-> best2concsc,
             fraglen |-> fraglen])
    ELSE Raise("AssertionError")

PairedTuple_iter(t) ==
    <<t.rdname1, t.bestsc1, t.best2sc1, t.minv1, t.maxv1, t.rdlen1, t.mapq1,
      t.rdname2, t.bestsc2, t.best2sc2, t.minv2, t.maxv2, t.rdlen2, t.mapq2,
      t.bestconcsc, t.best2concsc, t.fraglen>>

\* Lines 164-168: both mates are widened exactly when al1 has a third-best
\* score, and then al2 must have one too.
SecBest1(al1, al2) ==
    IF hasattr(al1, "thirdBestScore")
    THEN PyMax(al1.secondBestScore, al1.thirdBestScore)
    ELSE al1.secondBestScore

\* SecBest2 widened on al2's own third-best score.
SecBest2_OwnThird(al1, al2) ==
    IF hasattr(al2, "thirdBestScore")
    THEN PyMax(al2.secondBestScore, al2.thirdBestScore)
    ELSE al2.secondBestScore

SecBest2(al1, al2) ==
    IF hasattr(al1, "thirdBestScore")
    THEN PyMax(al2.secondBestScore, al2.thirdBestScore)
    ELSE al2.secondBestScore

from_alignments(al1, al2) ==
    IF hasattr(al1, "thirdBestScore") /\ ~hasattr(al2, "thirdBestScore")
    THEN Raise("AssertionError")
    ELSE IF /\ hasattr(al1, "minValid")
            /\ (~hasattr(al2, "minValid") \/ ~hasattr(al1, "maxValid")
                \/ ~hasattr(al2, "maxValid"))
    THEN Raise("AttributeError")
    ELSE IF /\ hasattr(al1, "bestConcordantScore")
            /\ \/ ~hasattr(al2, "bestConcordantScore")
               \/ ~hasattr(al1, "secondBestConcordantScore")
               \/ ~hasattr(al2, "secondBestConcordantScore")
               \/ al1.bestConcordantScore # al2.bestConcordantScore
               \/ al1.secondBestConcordantScore # al2.secondBestConcordantScore
    THEN Raise("AssertionError")
    ELSE LET has == hasattr(al1, "minValid")
             hasc == hasattr(al1, "bestConcordantScore")
         IN  PairedTuple(al1.name, al1.len,
                         IF has THEN al1.minValid ELSE None,
                         IF has THEN al1.maxValid ELSE None,
                         al1.bestScore, SecBest1(al1, al2), al1.mapq,
                         al2.name, al2.len,
                         IF has THEN al2.minValid ELSE None,
                         IF has THEN al2.maxValid ELSE None,
                         al2.bestScore, SecBest2(al1, al2), al2.mapq,
                         IF hasc THEN al1.bestConcordantScore ELSE None,
                         IF hasc THEN al1.secondBestConcordantScore ELSE None,
                         Alignment_fragment_length(al1, al2))

(***************************************************************************)
(* Dataset                                                                 *)
(***************************************************************************)
Suffixes == {"_unp", "_conc", "_disc", "_bad_end"}

IsPaired(lab) == lab \in {"_conc", "_disc"}

Dataset_init ==
    [data |-> [c \in Suffixes |-> <<>>], lab |-> [c \in Suffixes |-> <<>>]]

NoFile == [exists |-> FALSE, rows |-> <<>>]

Call(op, al1, al2, c1, c2, olen, r) ==
    [op |-> op, al1 |-> al1, al2 |-> al2, c1 |-> c1, c2 |-> c2,
     olen |-> olen, err |-> r.err, rec |-> r.rec]

Init ==
    /\ ds = Dataset_init
    /\ fs = [f \in Suffixes \X {"", ".gz"} |-> NoFile]
    /\ saved = Dataset_init
    /\ ld = Dataset_init
    /\ open = {}
    /\ calls = [add |-> 0, save |-> 0, load |-> 0]
    /\ last = Call("init", NoAl, NoAl, None, None, 0, Ok(NoRec))

(***************************************************************************)
(* The record constructors and derivations called on their own, once, on   *)
(* inputs drawn from the sets below.                                       *)
(***************************************************************************)
OppositeLens == {0, 2}

PairAligns == {a \in Alignments : a.concordant}

FieldValues == {None, PyInt(0), PyInt(1), PyInt(2)}

FromAlignment ==
    /\ last.op = "init"
    /\ \E al \in Alignments, ordlen \in OppositeLens :
        /\ last' = Call("from_alignment", al, NoAl, None, None, ordlen,
                        from_alignment(al, PyInt(ordlen)))
        /\ UNCHANGED <<ds, fs, saved, ld, open, calls>>

FromAlignments ==
    /\ last.op = "init"
    /\ \E al1 \in PairAligns, al2 \in PairAligns :
        /\ last' = Call("from_alignments", al1, al2, None, None, 0,
                        from_alignments(al1, al2))
        /\ UNCHANGED <<ds, fs, saved, ld, open, calls>>

NewUnpairedTuple ==
    /\ last.op = "init"
    /\ \E minv \in FieldValues, maxv \in FieldValues, bestsc \in FieldValues :
        /\ last' = Call("UnpairedTuple",
                        [minv |-> minv, maxv |-> maxv, bestsc |-> bestsc],
                        NoAl, None, None, 0,
                        UnpairedTuple(PyStr("r1"), PyInt(3), minv, maxv, bestsc,
                                      PyInt(0), PyInt(9), PyInt(0)))
        /\ UNCHANGED <<ds, fs, saved, ld, open, calls>>

NewPairedTuple ==
    /\ last.op = "init"
    /\ \E minv1 \in FieldValues, maxv1 \in FieldValues, bestsc1 \in FieldValues,
       minv2 \in FieldValues, maxv2 \in FieldValues, bestsc2 \in FieldValues :
        /\ last' = Call("PairedTuple",
                        [minv |-> minv1, maxv |-> maxv1, bestsc |-> bestsc1],
                        [minv |-> minv2, maxv |-> maxv2, bestsc |-> bestsc2],
                        None, None, 0,
                        PairedTuple(PyStr("r1"), PyInt(3), minv1, maxv1, bestsc1,
                                    PyInt(0), PyInt(9),
                                    PyStr("7"), PyInt(2), minv2, maxv2, bestsc2,
                                    PyInt(0), PyInt(0),
                                    None, None, PyInt(5)))
        /\ UNCHANGED <<ds, fs, saved, ld, open, calls>>

NextTuple == FromAlignment \/ FromAlignments \/ NewUnpairedTuple \/ NewPairedTuple

SpecTuple == Init /\ [][NextTuple]_vars

(***************************************************************************)
(* Dataset.add_*                                                           *)
(***************************************************************************)
Append2(d, lab, recs, labels) ==
    [data |-> [d.data EXCEPT ![lab] = @ \o recs],
     lab |-> [d.lab EXCEPT ![lab] = @ \o labels]]

Done(d) == [ds |-> d, err |-> ""]

Failed(d, e) == [ds |-> d, err |-> e]

\* add_pair that builds both records from the same ordered pair.
add_pair_SameMate(d, lab, al1, al2, correct1, correct2) ==
    LET rec1 == from_alignments(al1, al2)
        rec2 == from_alignments(al1, al2)
    IN  IF rec1.err # "" THEN Failed(d, rec1.err)
        ELSE IF rec2.err # "" THEN Failed(d, rec2.err)
        ELSE Done(Append2(d, lab, <<rec1.rec, rec2.rec>>, <<correct1, correct2>>))

\* add_pair that appends the first record before it builds the second.
add_pair_Eager(d, lab, al1, al2, correct1, correct2) ==
    LET rec1 == from_alignments(al1, al2)
        rec2 == from_alignments(al2, al1)
    IN  IF rec1.err # "" THEN Failed(d, rec1.err)
        ELSE IF rec2.err # "" THEN Failed(Append2(d, lab, <<rec1.rec>>, <<>>), rec2.err)
        ELSE Done(Append2(d, lab, <<rec1.rec, rec2.rec>>, <<correct1, correct2>>))

add_pair(d, lab, al1, al2, correct1, correct2) ==
    LET rec1 == from_alignments(al1, al2)
        rec2 == from_alignments(al2, al1)
    IN  IF rec1.err # "" THEN Failed(d, rec1.err)
        ELSE IF rec2.err # "" THEN Failed(d, rec2.err)
        ELSE Done(Append2(d, lab, <<rec1.rec, rec2.rec>>, <<correct1, correct2>>))

add_concordant(d, al1, al2, correct1, correct2) ==
    IF ~(al1.concordant /\ al2.concordant) THEN Failed(d, "AssertionError")
    ELSE add_pair(d, "_conc", al1, al2, correct1, correct2)

add_discordant(d, al1, al2, correct1, correct2) ==
    IF ~(al1.discordant /\ al2.discordant) THEN Failed(d, "AssertionError")
    ELSE add_pair(d, "_disc", al1, al2, correct1, correct2)

add_bad_end(d, al, unaligned_len, correct) ==
    IF ~al.paired THEN Failed(d, "AssertionError")
    ELSE LET r == from_alignment(al, PyInt(unaligned_len))
         IN  IF r.err # "" THEN Failed(d, r.err)
             ELSE Done(Append2(d, "_bad_end", <<r.rec>>, <<correct>>))

add_unpaired(d, al, correct) ==
    LET r == from_alignment(al, PyInt(0))
    IN  IF r.err # "" THEN Failed(d, r.err)
        ELSE Done(Append2(d, "_unp", <<r.rec>>, <<correct>>))

(***************************************************************************)
(* The alignments one scan feeds to the Dataset.                           *)
(***************************************************************************)
ScanAligns ==
    {Al("r1", 1, NoAttr, "none", NoAttr, "unpaired"),
     Al("7", 1, PyInt(2), "both", NoAttr, "badend"),
     Al("8", 3, PyInt(-1), "both", NoAttr, "badend")}

ScanPairs ==
    {<<Al("7", 1, PyInt(2), "both", PyInt(4), "concordant"),
       Al("8", 1, PyInt(-1), "both", PyInt(4), "concordant")>>,
     <<Al("7", 3, NoAttr, "none", NoAttr, "discordant"),
       Al("8", 1, NoAttr, "none", NoAttr, "discordant")>>,
     <<Al("r1", 1, PyInt(2), "both", PyInt(4), "concordant"),
       Al("7", 1, PyInt(2), "both", PyInt(4), "concordant")>>,
     <<Al("7", 1, PyInt(2), "both", PyInt(4), "concordant"),
       Al("7", 3, NoAttr, "none", NoAttr, "discordant")>>,
     <<Al("8", 1, NoAttr, "none", NoAttr, "discordant"),
       Al("7", 1, PyInt(2), "none", NoAttr, "discordant")>>}

Labels == {PyTrue, PyFalse, None}

LabelPairs == {<<PyTrue, PyFalse>>, <<None, PyTrue>>}

UnalignedLens == {2}

Counted(what) == [calls EXCEPT ![what] = @ + 1]

AddUnpaired ==
    /\ calls.add < MaxAdds
    /\ \E al \in ScanAligns, correct \in Labels :
          LET r == add_unpaired(ds, al, correct)
          IN  /\ ds' = r.ds
              /\ last' = Call("add_unpaired", al, NoAl, correct, None, 0,
                              [err |-> r.err, rec |-> NoRec])
    /\ calls' = Counted("add")
    /\ UNCHANGED <<fs, saved, ld, open>>

AddBadEnd ==
    /\ calls.add < MaxAdds
    /\ \E al \in ScanAligns, n \in UnalignedLens, correct \in Labels :
          LET r == add_bad_end(ds, al, n, correct)
          IN  /\ ds' = r.ds
              /\ last' = Call("add_bad_end", al, NoAl, correct, None, n,
                              [err |-> r.err, rec |-> NoRec])
    /\ calls' = Counted("add")
    /\ UNCHANGED <<fs, saved, ld, open>>

AddConcordant ==
    /\ calls.add < MaxAdds
    /\ \E p \in ScanPairs, c \in LabelPairs :
          LET r == add_concordant(ds, p[1], p[2], c[1], c[2])
          IN  /\ ds' = r.ds
              /\ last' = Call("add_concordant", p[1], p[2], c[1], c[2], 0,
                              [err |-> r.err, rec |-> NoRec])
    /\ calls' = Counted("add")
    /\ UNCHANGED <<fs, saved, ld, open>>

AddDiscordant ==
    /\ calls.add < MaxAdds
    /\ \E p \in ScanPairs, c \in LabelPairs :
          LET r == add_discordant(ds, p[1], p[2], c[1], c[2])
          IN  /\ ds' = r.ds
              /\ last' = Call("add_discordant", p[1], p[2], c[1], c[2], 0,
                              [err |-> r.err, rec |-> NoRec])
    /\ calls' = Counted("add")
    /\ UNCHANGED <<fs, saved, ld, open>>

NextAdd == AddUnpaired \/ AddBadEnd \/ AddConcordant \/ AddDiscordant

SpecAdd == Init /\ [][NextAdd]_vars

(***************************************************************************)
(* Dataset.save                                                            *)
(***************************************************************************)
PairedHeader ==
    <<"name1", "best1", "secbest1", "minv1", "maxv1", "len1", "mapq1",
      "name2", "best2", "secbest2", "minv2", "maxv2", "len2", "mapq2",
      "bestconc", "secbestconc", "fraglen", "correct">>

UnpairedHeader ==
    <<"name", "best", "secbest", "minv", "maxv", "len", "mapq", "olen", "correct">>

Header(paired) == IF paired THEN PairedHeader ELSE UnpairedHeader

\* str(x)
str(x) == IF x.k = "str" THEN x.s ELSE ToString(x.n)

\* lambda x: 'NA' if x is None else str(x)
na_or_str(x) == IF x = None THEN "NA" ELSE str(x)

correct_str(correct) ==
    IF correct = None THEN "NA" ELSE IF correct = PyTrue THEN "T" ELSE "F"

Fields(paired, tup) ==
    IF paired THEN PairedTuple_iter(tup) ELSE UnpairedTuple_iter(tup)

Row(paired, tup, correct) ==
    LET flds == Fields(paired, tup)
    IN  [i \in 1..Len(flds) |-> na_or_str(flds[i])] \o <<correct_str(correct)>>

Min(a, b) == IF a <= b THEN a ELSE b

\* The lines save writes for one collection: the header, then one row per
\* (record, label) pair of izip(data, corrects).
save_rows(d, lab) ==
    LET paired == IsPaired(lab)
        n == Min(Len(d.data[lab]), Len(d.lab[lab]))
    IN  <<Header(paired)>> \o
        [i \in 1..n |-> Row(paired, d.data[lab][i], d.lab[lab][i])]

Ext(compress) == IF compress THEN ".gz" ELSE ""

save(files, d, compress) ==
    [f \in DOMAIN files |->
        IF f[2] = Ext(compress)
        THEN [exists |-> TRUE, rows |-> save_rows(d, f[1])]
        ELSE files[f]]

Save ==
    /\ calls.save < MaxSaves
    /\ \E compress \in BOOLEAN :
          /\ fs' = save(fs, ds, compress)
          /\ last' = Call("save", NoAl, NoAl, PyBool(compress), None, 0, Ok(NoRec))
    /\ saved' = ds
    /\ calls' = Counted("save")
    /\ UNCHANGED <<ds, ld, open>>

(***************************************************************************)
(* Dataset.load                                                            *)
(***************************************************************************)
\* int(s) for the decimal strings of -MaxNum .. MaxNum; ValueError otherwise.
IsIntText(s) == \E i \in -MaxNum..MaxNum : ToString(i) = s

int(s) == CHOOSE i \in -MaxNum..MaxNum : ToString(i) = s

int_or_none(s) == IF s = "NA" THEN None ELSE PyInt(int(s))

\* int_or_none raises ValueError on a token that is neither NA nor a number.
Parses(s) == s = "NA" \/ IsIntText(s)

PairedWidth == 18

UnpairedWidth == 8

Width(paired) == IF paired THEN PairedWidth ELSE UnpairedWidth

\* assert 18 == len(toks) / assert 8 == len(toks)
accepts(paired, toks) == Len(toks) = Width(paired)

\* One row of csv.reader: "skip" for the header, a record and its label,
\* or the exception the row raises.
load_row(paired, toks) ==
    IF ~accepts(paired, toks) THEN [err |-> "AssertionError", skip |-> FALSE,
                                    rec |-> NoRec, correct |-> None]
    ELSE IF toks[1] = (IF paired THEN "name1" ELSE "name")
    THEN [err |-> "", skip |-> TRUE, rec |-> NoRec, correct |-> None]
    ELSE IF \E i \in 1..(Len(toks) - (IF paired THEN 1 ELSE 0)) : ~Parses(toks[i])
    THEN [err |-> "ValueError", skip |-> FALSE, rec |-> NoRec, correct |-> None]
    ELSE LET v == [i \in 1..Len(toks) |-> IF Parses(toks[i]) THEN int_or_none(toks[i])
                                          ELSE None]
             r == IF paired
                  THEN PairedTuple(v[1], v[6], v[4], v[5], v[2], v[3], v[7],
                                   v[8], v[13], v[11], v[12], v[9], v[10], v[14],
                                   v[15], v[16], v[17])
                  ELSE UnpairedTuple(v[1], v[6], v[4], v[5], v[2], v[3], v[7], v[8])
         IN  [err |-> r.err, skip |-> FALSE, rec |-> r.rec,
              correct |-> PyBool(toks[Len(toks)] = "T")]

RECURSIVE load_rows(_, _, _, _, _)
load_rows(paired, rows, i, data, corrects) ==
    IF i > Len(rows) THEN [data |-> data, corrects |-> corrects, err |-> ""]
    ELSE LET r == load_row(paired, rows[i])
         IN  IF r.err # ""
             THEN [data |-> data, corrects |-> corrects, err |-> r.err]
             ELSE IF r.skip THEN load_rows(paired, rows, i + 1, data, corrects)
             ELSE load_rows(paired, rows, i + 1, Append(data, r.rec),
                            Append(corrects, r.correct))

\* The file load opens for a suffix: the .gz one when it exists.
FileFor(files, lab) ==
    IF files[<<lab, ".gz">>].exists THEN <<lab, ".gz">> ELSE <<lab, "">>

\* load over the suffixes in the order fnmap.iteritems() yields them, from the
\* i-th on.  `opened` are the handles opened and not closed.
RECURSIVE load(_, _, _, _, _)
load(files, d, order, i, opened) ==
    IF i > Len(order) THEN [ds |-> d, err |-> "", open |-> opened]
    ELSE LET lab == order[i]
             f == FileFor(files, lab)
         IN  IF ~files[f].exists THEN [ds |-> d, err |-> "IOError", open |-> opened]
             ELSE LET r == load_rows(IsPaired(lab), files[f].rows, 1,
                                     d.data[lab], d.lab[lab])
                      d2 == [data |-> [d.data EXCEPT ![lab] = r.data],
                             lab |-> [d.lab EXCEPT ![lab] = r.corrects]]
                  IN  IF r.err # ""
                      THEN [ds |-> d2, err |-> r.err, open |-> opened \cup {f}]
                      ELSE load(files, d2, order, i + 1, opened)

\* The orders in which a dict of the four suffixes may be iterated.
Orders == {o \in [1..4 -> Suffixes] : \A i, j \in 1..4 : o[i] = o[j] => i = j}

Load ==
    /\ calls.load < MaxLoads
    /\ \E order \in Orders :
          LET r == load(fs, Dataset_init, order, 1, {})
          IN  /\ ld' = r.ds
              /\ open' = open \cup r.open
              /\ last' = Call("load", NoAl, NoAl, None, None, 0,
                              [err |-> r.err, rec |-> NoRec])
    /\ calls' = Counted("load")
    /\ UNCHANGED <<ds, fs, saved>>

Next == AddUnpaired \/ AddBadEnd \/ AddConcordant \/ AddDiscordant \/ Save \/ Load

Spec == Init /\ [][Next]_vars

(***************************************************************************)
(* Properties.                                                             *)
(***************************************************************************)
IsPrefix(p, q) == Len(p) <= Len(q) /\ SubSeq(q, 1, Len(p)) = p

Present(v) == v.k = "int"

InBounds(minv, bestsc, maxv) ==
    bestsc.k = "int" /\ minv.n <= bestsc.n /\ bestsc.n <= maxv.n

\* A load has run after a save.
Loaded == last.op = "load" /\ calls.save > 0

AllRecords(d) == {<<c, i>> \in Suffixes \X (1..(2 * MaxAdds)) : i <= Len(d.data[c])}

NoAbsent(d) ==
    \A c \in Suffixes :
        /\ \A i \in 1..Len(d.data[c]) :
              \A f \in DOMAIN d.data[c][i] : d.data[c][i][f] # None
        /\ \A i \in 1..Len(d.lab[c]) : d.lab[c][i] \in {PyTrue, PyFalse}

\* C1: for a Dataset with no absent numeric field and only true/false labels,
\* save followed by load into an empty Dataset succeeds and yields the same
\* records and labels, in the same order, in all four collections.
C1_RoundTrip ==
    (Loaded /\ NoAbsent(saved)) => (last.err = "" /\ ld = saved)

BoundColumns(c) == IF IsPaired(c) THEN {4, 5, 11, 12} ELSE {4, 5}

BoundsAbsent(c, r) ==
    IF IsPaired(c)
    THEN r.minv1 = None /\ r.maxv1 = None /\ r.minv2 = None /\ r.maxv2 = None
    ELSE r.minv = None /\ r.maxv = None

\* C2: a record with absent min/max bounds is saved with NA in its minv/maxv
\* columns, and loading that row gives a record whose bounds are absent again.
C2_NAPropagation ==
    Loaded =>
        \A x \in AllRecords(saved) :
            LET c == x[1]
                i == x[2]
                rows == fs[FileFor(fs, c)].rows
            IN  BoundsAbsent(c, saved.data[c][i]) =>
                    /\ \A col \in BoundColumns(c) : rows[i + 1][col] = "NA"
                    /\ i <= Len(ld.data[c])
                    /\ BoundsAbsent(c, ld.data[c][i])

BadArgs(a) ==
    Present(a.minv) /\ Present(a.maxv) /\ ~InBounds(a.minv, a.bestsc, a.maxv)

BadAlignment(al) ==
    /\ Present(al.minValid) /\ Present(al.maxValid)
    /\ ~InBounds(al.minValid, al.bestScore, al.maxValid)

\* C3: constructing an UnpairedTuple, or a PairedTuple for either mate, with
\* both bounds present and the best score outside [min, max] raises and gives
\* no record; every record that exists with both bounds present has
\* min <= best <= max.
C3_ScoreBound ==
    /\ (last.op = "UnpairedTuple" /\ BadArgs(last.al1))
          => (last.err = "AssertionError" /\ last.rec = NoRec)
    /\ (last.op = "PairedTuple" /\ (BadArgs(last.al1) \/ BadArgs(last.al2)))
          => (last.err = "AssertionError" /\ last.rec = NoRec)
    /\ (last.op = "from_alignment" /\ BadAlignment(last.al1))
          => (last.err = "AssertionError" /\ last.rec = NoRec)
    /\ (last.op \in {"UnpairedTuple", "from_alignment"} /\ last.rec # NoRec)
          => ((Present(last.rec.minv) /\ Present(last.rec.maxv))
                 => InBounds(last.rec.minv, last.rec.bestsc, last.rec.maxv))
    /\ (last.op \in {"PairedTuple", "from_alignments"} /\ last.rec # NoRec)
          => /\ (Present(last.rec.minv1) /\ Present(last.rec.maxv1))
                   => InBounds(last.rec.minv1, last.rec.bestsc1, last.rec.maxv1)
             /\ (Present(last.rec.minv2) /\ Present(last.rec.maxv2))
                   => InBounds(last.rec.minv2, last.rec.bestsc2, last.rec.maxv2)

C3_Witness ==
    /\ last.op = "PairedTuple"
    /\ ~BadArgs(last.al1) /\ Present(last.al1.minv)
    /\ BadArgs(last.al2)
    /\ last.err = "AssertionError"

AttrOrNone(al, f) == IF al[f] = NoAttr THEN None ELSE al[f]

ExpectedSecBest(al) ==
    IF al.thirdBestScore = NoAttr THEN al.secondBestScore
    ELSE IF al.thirdBestScore.n > al.secondBestScore.n THEN al.thirdBestScore
    ELSE al.secondBestScore

IsMate1(r, al) ==
    /\ r.rdname1 = al.name /\ r.rdlen1 = al.len /\ r.bestsc1 = al.bestScore
    /\ r.best2sc1 = ExpectedSecBest(al) /\ r.mapq1 = al.mapq
    /\ r.minv1 = AttrOrNone(al, "minValid") /\ r.maxv1 = AttrOrNone(al, "maxValid")

IsMate2(r, al) ==
    /\ r.rdname2 = al.name /\ r.rdlen2 = al.len /\ r.bestsc2 = al.bestScore
    /\ r.best2sc2 = ExpectedSecBest(al) /\ r.mapq2 = al.mapq
    /\ r.minv2 = AttrOrNone(al, "minValid") /\ r.maxv2 = AttrOrNone(al, "maxValid")

PairColl(op) == IF op = "add_concordant" THEN "_conc" ELSE "_disc"

\* C4: a successful add_concordant / add_discordant appends exactly two
\* records and the labels [c1, c2]; the first record has al1's data as mate 1
\* and al2's as mate 2, the second has al2's as mate 1 and al1's as mate 2.
C4_PairSymmetry ==
    [][(last'.op \in {"add_concordant", "add_discordant"} /\ last'.err = "") =>
          LET c == PairColl(last'.op)
              n == Len(ds.data[c])
          IN  /\ Len(ds'.data[c]) = n + 2
              /\ SubSeq(ds'.data[c], 1, n) = ds.data[c]
              /\ ds'.lab[c] = ds.lab[c] \o <<last'.c1, last'.c2>>
              /\ IsMate1(ds'.data[c][n + 1], last'.al1)
              /\ IsMate2(ds'.data[c][n + 1], last'.al2)
              /\ IsMate1(ds'.data[c][n + 2], last'.al2)
              /\ IsMate2(ds'.data[c][n + 2], last'.al1)]_vars

C4_Witness ==
    /\ last.op = "add_concordant" /\ last.err = ""
    /\ last.al1.name # last.al2.name
    /\ last.al1.thirdBestScore # last.al2.thirdBestScore
    /\ Len(ds.data["_conc"]) = 4

\* C5 (as stated): the second-best score of a record is max(second, third)
\* when the alignment has a third-best score and the second-best score
\* otherwise, for each mate of a PairedTuple whatever the other mate has.
C5_WideningIndependent ==
    /\ (last.op = "from_alignment" /\ last.err = "")
          => last.rec.best2sc = ExpectedSecBest(last.al1)
    /\ (last.op = "from_alignments" /\ last.err = "")
          => /\ last.rec.best2sc1 = ExpectedSecBest(last.al1)
             /\ last.rec.best2sc2 = ExpectedSecBest(last.al2)

\* C5 (amended): an UnpairedTuple's second-best score is max(second, third)
\* when the alignment has a third-best score and the second-best score
\* otherwise; from_alignments(al1, al2) widens both mates exactly when al1
\* has a third-best score (it raises when al1 has one and al2 has none), and
\* widens neither mate when al1 has none, even if al2 has one.
C5_WideningFollowsMate1 ==
    /\ (last.op = "from_alignment" /\ last.err = "")
          => last.rec.best2sc = ExpectedSecBest(last.al1)
    /\ (last.op = "from_alignments" /\ last.al1.thirdBestScore # NoAttr
            /\ last.al2.thirdBestScore = NoAttr)
          => last.err = "AssertionError"
    /\ (last.op = "from_alignments" /\ last.err = "")
          => IF last.al1.thirdBestScore # NoAttr
             THEN /\ last.rec.best2sc1 = ExpectedSecBest(last.al1)
                  /\ last.rec.best2sc2 = ExpectedSecBest(last.al2)
             ELSE /\ last.rec.best2sc1 = last.al1.secondBestScore
                  /\ last.rec.best2sc2 = last.al2.secondBestScore

C5_Witness ==
    /\ last.op = "from_alignments" /\ last.err = ""
    /\ last.al1.thirdBestScore = NoAttr
    /\ last.al2.thirdBestScore # NoAttr
    /\ last.al2.thirdBestScore.n > last.al2.secondBestScore.n
    /\ last.rec.best2sc2 = last.al2.secondBestScore

OrdLens(d, c) == [i \in 1..Len(d.data[c]) |-> d.data[c][i].ordlen]

\* C6: add_bad_end appends a record whose ordlen is the unaligned mate's
\* length (> 0), add_unpaired appends records with ordlen 0, and the field
\* is the same after save and load.
C6_BadEndOverload ==
    /\ \A i \in 1..Len(ds.data["_bad_end"]) :
          ds.data["_bad_end"][i].ordlen.n \in UnalignedLens
          /\ ds.data["_bad_end"][i].ordlen.n > 0
    /\ \A i \in 1..Len(ds.data["_unp"]) : ds.data["_unp"][i].ordlen = PyInt(0)
    /\ Loaded => /\ OrdLens(ld, "_bad_end") = OrdLens(saved, "_bad_end")
                 /\ OrdLens(ld, "_unp") = OrdLens(saved, "_unp")

ClaimedWidth(paired) == IF paired THEN 17 ELSE 9

\* C7: load accepts a row of an unpaired or bad-end file exactly when it has
\* 9 tokens and a row of a concordant or discordant file exactly when it has
\* 17 tokens, and every row save writes has the accepted width.
C7_RowWidth ==
    \A f \in DOMAIN fs :
        fs[f].exists =>
            \A i \in 1..Len(fs[f].rows) :
                LET toks == fs[f].rows[i]
                    paired == IsPaired(f[1])
                IN  /\ Len(toks) = ClaimedWidth(paired)
                    /\ accepts(paired, toks) <=> (Len(toks) = ClaimedWidth(paired))

ExpectedToken(correct) ==
    IF correct = PyTrue THEN "T" ELSE IF correct = PyFalse THEN "F" ELSE "NA"

\* C8: save writes T for a true label, F for a false one and NA for an
\* absent one; load reads T as true and anything else as false, so after
\* save and load a record labelled unknown carries the label false.
C8_LabelEncoding ==
    Loaded =>
        \A x \in AllRecords(saved) :
            LET c == x[1]
                i == x[2]
                row == fs[FileFor(fs, c)].rows[i + 1]
            IN  /\ row[Len(row)] = ExpectedToken(saved.lab[c][i])
                /\ i <= Len(ld.lab[c])
                /\ ld.lab[c][i] = PyBool(saved.lab[c][i] = PyTrue)

\* C9: whenever save or load has returned or failed, every file handle it
\* opened has been closed.
C9_HandleRelease == open = {}

OwnColl(op) ==
    IF op = "add_unpaired" THEN "_unp"
    ELSE IF op = "add_bad_end" THEN "_bad_end"
    ELSE PairColl(op)

\* C10: after any add_* call, failed ones included, each collection has as
\* many labels as records, what it held before the call is a prefix of what
\* it holds after, and only the call's own collection changes (none at all
\* when the call fails).
C10_AppendOnly ==
    [][\A c \in Suffixes :
          /\ Len(ds'.data[c]) = Len(ds'.lab[c])
          /\ IsPrefix(ds.data[c], ds'.data[c])
          /\ IsPrefix(ds.lab[c], ds'.lab[c])
          /\ (c # OwnColl(last'.op) \/ last'.err # "")
                => (ds'.data[c] = ds.data[c] /\ ds'.lab[c] = ds.lab[c])]_vars

C10_Witness ==
    /\ last.op = "add_discordant" /\ last.err = "AssertionError"
    /\ last.al1.discordant /\ last.al2.discordant
    /\ Len(ds.data["_disc"]) = 2
    /\ Len(ds.lab["_disc"]) = 2

====
